---- MODULE Spec2Model ----
(***************************************************************************)
(* Model of the fuel-stop route planner (backend/route_planner).           *)
(*                                                                         *)
(*   services.py  RouteOptimizer: geocode_station, get_route,              *)
(*                find_nearby_stations, calculate_fuel_cost,               *)
(*                optimize_fuel_stops                                      *)
(*   views.py     RouteOptimizationView: geocode_address, post             *)
(*                                                                         *)
(* Numbers.  Python floats are modelled as exact non-negative rationals    *)
(* <<n, d>> in lowest terms, so float rounding is not modelled.  Prices    *)
(* and distances are drawn from small integer sets.                        *)
(*                                                                         *)
(* Geography.  A Point is <<x, y>> (x = longitude, y = latitude) on a      *)
(* small grid; the spatial distance the database computes is modelled as   *)
(* GridMiles times the grid (taxicab) distance.  <<0, 0>> is the           *)
(* "not geocoded" sentinel of geocode_station.                             *)
(*                                                                         *)
(* Environment.  The MapQuest geocoder's answers during one call are a     *)
(* function geo from address to answer, chosen anew for every call.  The   *)
(* database's order among rows that tie on (price, distance) is            *)
(* unspecified and is a nondeterministic choice.                           *)
(***************************************************************************)
EXTENDS Integers, Sequences, FiniteSets, TLC

VARIABLES
    stations,          \* the Station table: opis_id -> row, or NoStation
    cache,             \* django.core.cache: a function from the live keys to their values
    miles_per_gallon,  \* RouteOptimizer.miles_per_gallon (settings.MILES_PER_GALLON)
    max_range,         \* RouteOptimizer.max_range (settings.MAX_RANGE)
    found,             \* the last find_nearby_stations call and what it returned
    opt,               \* the last optimize_fuel_stops call and what it returned
    routed,            \* the last get_route call and what it returned
    served,            \* history: (start, end) -> result of the last successful get_route since the key expired
    provider_calls,    \* history: number of requests sent to the directions provider
    resp,              \* the last RouteOptimizationView.post request and its response
    imp                \* the last run of the import_stations command, or of its retry helper

vars == <<stations, cache, miles_per_gallon, max_range, found, opt, routed,
          served, provider_calls, resp, imp>>

----------------------------------------------------------------------------
(* Bounds of the model *)

MaxRouteLen == 2       \* longest route handed to optimize_fuel_stops
MaxDist == 6           \* largest total_distance
MaxProviderCalls == 2  \* directions-provider requests in one behaviour
GridMiles == 40        \* miles between neighbouring grid points
MaxCsvRows == 2        \* lines of the CSV file handed to import_stations
MaxRetriesArg == 4     \* largest max_retries handed to geocode_with_retry

(* Program constants *)

MaxResults == 5        \* the [:5] slice of find_nearby_stations
DefaultRadius == 50    \* max_distance: float = 50
DefaultMaxRetries == 3  \* max_retries=3 of geocode_with_retry

(* Value sets *)

Coords == {0, 1}
Points == Coords \X Coords
SENTINEL == <<0, 0>>
RealPoints == Points \ {SENTINEL}
Prices == {1, 2}
Addresses == {"addr1", "addr2"}
Radii == {0, DefaultRadius, 100}
Configs == {<<3, 2>>, <<2, 3>>}  \* settings: <<MILES_PER_GALLON, MAX_RANGE>>
NStations == MaxResults + 1   \* one row more than the slice keeps
StationIds == 1..NStations
OptTableSizes == 0..2          \* rows of the Station table in the optimizer's runs
NoStation == [opis_id |-> 0, price |-> 0, location |-> SENTINEL, address |-> "none"]
Row(k, p, l, a) == [opis_id |-> k, price |-> p, location |-> l, address |-> a]

----------------------------------------------------------------------------
(* Arithmetic on non-negative rationals *)

Abs(x) == IF x < 0 THEN -x ELSE x

RECURSIVE GCD(_, _)
GCD(a, b) == IF b = 0 THEN a ELSE GCD(b, a % b)

Rat(n, d) == LET g == GCD(n, d) IN <<n \div g, d \div g>>
ToFloat(i) == <<i, 1>>
RatDiv(a, b) == Rat(a[1] * b[2], a[2] * b[1])
RatMul(a, b) == Rat(a[1] * b[1], a[2] * b[2])
RatAdd(a, b) == Rat(a[1] * b[2] + b[1] * a[2], a[2] * b[2])
RatFloor(a) == a[1] \div a[2]
Zero == ToFloat(0)

----------------------------------------------------------------------------
(* The cache *)

CacheGet(c, key) == IF key \in DOMAIN c THEN <<c[key]>> ELSE <<>>
CacheSet(c, key, value) ==
    [k \in (DOMAIN c) \cup {key} |-> IF k = key THEN value ELSE c[k]]
CacheDelete(c, key) == [k \in (DOMAIN c) \ {key} |-> c[k]]
EmptyCache == [k \in {} |-> <<>>]

GeoKey(address) == <<"geocode_", address>>

----------------------------------------------------------------------------
(* The geocoder's answers *)

GeoError == [kind |-> "error", point |-> SENTINEL]
GeoNoResult == [kind |-> "none", point |-> SENTINEL]
GeoHit(p) == [kind |-> "ok", point |-> p]
GeoAnswers == {GeoError, GeoNoResult} \cup {GeoHit(p) : p \in RealPoints}
GeoWorlds == [Addresses -> GeoAnswers]

(* geocode_station(station): the outcome is [ok, station, stations, cache]. *)
geocode_station(station, st, ca, geo) ==
    IF station.location[1] = 0 /\ station.location[2] = 0
    THEN LET cache_key == GeoKey(station.address)
             cached_location == CacheGet(ca, cache_key)
             answer == geo[station.address]
         IN  IF cached_location # <<>>
             THEN LET s2 == [station EXCEPT !.location = cached_location[1]]
                  IN  [ok |-> TRUE, station |-> s2,
                       stations |-> [st EXCEPT ![s2.opis_id] = s2], cache |-> ca]
             ELSE IF answer.kind = "error"
             THEN [ok |-> FALSE, station |-> station, stations |-> st, cache |-> ca]
             ELSE IF answer.kind = "ok"
             THEN LET s2 == [station EXCEPT !.location = answer.point]
                  IN  [ok |-> TRUE, station |-> s2,
                       stations |-> [st EXCEPT ![s2.opis_id] = s2],
                       cache |-> CacheSet(ca, cache_key, answer.point)]
             ELSE [ok |-> TRUE, station |-> station, stations |-> st, cache |-> ca]
    ELSE [ok |-> TRUE, station |-> station, stations |-> st, cache |-> ca]

----------------------------------------------------------------------------
(* find_nearby_stations *)

Distance(p, q) == GridMiles * (Abs(p[1] - q[1]) + Abs(p[2] - q[2]))

Present(st) == {k \in DOMAIN st : st[k] # NoStation}

InRange(st, point, max_distance) ==
    {k \in Present(st) : Distance(st[k].location, point) <= max_distance}

(* order_by("price", "distance") *)
OrderLeq(a, b, point) ==
    \/ a.price < b.price
    \/ /\ a.price = b.price
       /\ Distance(a.location, point) <= Distance(b.location, point)

(* The first n rows of S in that order: one sequence for every way the    *)
(* database may order the rows that tie.                                   *)
RECURSIVE OrderedSlice(_, _, _, _)
OrderedSlice(st, point, S, n) ==
    IF n = 0 \/ S = {}
    THEN {<<>>}
    ELSE LET first == {k \in S : \A j \in S : OrderLeq(st[k], st[j], point)}
         IN  UNION {{<<k>> \o t : t \in OrderedSlice(st, point, S \ {k}, n - 1)} :
                    k \in first}

Query(st, point, max_distance) ==
    OrderedSlice(st, point, InRange(st, point, max_distance), MaxResults)

FuelStation(station) ==
    [id |-> station.opis_id, price |-> station.price,
     location |-> station.location, address |-> station.address]

(* The loop over the queried rows: [result, stations, cache]. *)
RECURSIVE GeocodeLoop(_, _, _, _, _)
GeocodeLoop(rows, st, ca, geo, geocoded_stations) ==
    IF rows = <<>>
    THEN [result |-> geocoded_stations, stations |-> st, cache |-> ca]
    ELSE LET g == geocode_station(Head(rows), st, ca, geo)
         IN  GeocodeLoop(Tail(rows), g.stations, g.cache, geo,
                         IF g.ok THEN Append(geocoded_stations, FuelStation(g.station))
                                 ELSE geocoded_stations)

(* The set of possible outcomes [result, stations, cache, query]. *)
find_nearby_stations(st, ca, geo, point, max_distance) ==
    {LET rows == [i \in 1..Len(ids) |-> st[ids[i]]]
         r == GeocodeLoop(rows, st, ca, geo, <<>>)
     IN  [result |-> r.result, stations |-> r.stations, cache |-> r.cache,
          query |-> rows] :
     ids \in Query(st, point, max_distance)}

----------------------------------------------------------------------------
(* get_route *)

(* f"route_{start}_{end}": strings are sequences of characters. *)
RouteKey(start, end) == <<"route_">> \o start \o <<"_">> \o end

(* What requests.get(...).json() gives: the request fails ("timeout"), the *)
(* body lacks the keys read ("malformed"), or it carries info.statuscode,  *)
(* route.shape.shapePoints and route.distance.                             *)
Json(statuscode, shapePoints, distance) ==
    [kind |-> "json", statuscode |-> statuscode, shapePoints |-> shapePoints,
     distance |-> distance]
NoResponse == [kind |-> "none", statuscode |-> 0, shapePoints |-> <<>>, distance |-> 0]
Timeout == [NoResponse EXCEPT !.kind = "timeout"]
Malformed == [NoResponse EXCEPT !.kind = "malformed"]

NoRoute == <<<<>>, 0>>
Raised(outcome, ca) == [outcome |-> outcome, result |-> NoRoute, cache |-> ca, called |-> TRUE]

(* for i in range(0, len(shape_points), 2): coordinates.append(...) *)
Coordinates(shape_points) ==
    [i \in 1..(Len(shape_points) \div 2) |-> <<shape_points[2 * i - 1], shape_points[2 * i]>>]

(* Mutant: the result is not stored in the cache. *)
get_route_NoCacheSet(ca, start, end, data) ==
    LET cached_result == CacheGet(ca, RouteKey(start, end))
    IN  IF cached_result # <<>>
        THEN [outcome |-> "ok", result |-> cached_result[1], cache |-> ca, called |-> FALSE]
        ELSE IF data.kind = "timeout" THEN Raised("RequestException", ca)
        ELSE IF data.kind = "malformed" THEN Raised("KeyError", ca)
        ELSE IF data.statuscode # 0 THEN Raised("ValueError", ca)
        ELSE IF Len(data.shapePoints) % 2 = 1 THEN Raised("IndexError", ca)
        ELSE [outcome |-> "ok",
              result |-> <<Coordinates(data.shapePoints), data.distance>>,
              cache |-> ca, called |-> TRUE]

(* Mutant: the status code is not checked. *)
get_route_IgnoreStatus(ca, start, end, data) ==
    LET cache_key == RouteKey(start, end)
        cached_result == CacheGet(ca, cache_key)
    IN  IF cached_result # <<>>
        THEN [outcome |-> "ok", result |-> cached_result[1], cache |-> ca, called |-> FALSE]
        ELSE IF data.kind = "timeout" THEN Raised("RequestException", ca)
        ELSE IF data.kind = "malformed" THEN Raised("KeyError", ca)
        ELSE IF Len(data.shapePoints) % 2 = 1 THEN Raised("IndexError", ca)
        ELSE LET result == <<Coordinates(data.shapePoints), data.distance>>
             IN  [outcome |-> "ok", result |-> result,
                  cache |-> CacheSet(ca, cache_key, result), called |-> TRUE]

(* get_route(start, end) when the provider would answer data: the outcome  *)
(* is [outcome, result, cache, called], called telling whether the request *)
(* was sent.                                                               *)
get_route(ca, start, end, data) ==
    LET cache_key == RouteKey(start, end)
        cached_result == CacheGet(ca, cache_key)
    IN  IF cached_result # <<>>
        THEN [outcome |-> "ok", result |-> cached_result[1], cache |-> ca, called |-> FALSE]
        ELSE IF data.kind = "timeout" THEN Raised("RequestException", ca)
        ELSE IF data.kind = "malformed" THEN Raised("KeyError", ca)
        ELSE IF data.statuscode # 0 THEN Raised("ValueError", ca)
        ELSE IF Len(data.shapePoints) % 2 = 1 THEN Raised("IndexError", ca)
        ELSE LET result == <<Coordinates(data.shapePoints), data.distance>>
             IN  [outcome |-> "ok", result |-> result,
                  cache |-> CacheSet(ca, cache_key, result), called |-> TRUE]

----------------------------------------------------------------------------
(* calculate_fuel_cost and optimize_fuel_stops *)

(* Mutant: the distance is multiplied by the mileage. *)
calculate_fuel_cost_Times(distance, price) ==
    RatMul(RatMul(distance, ToFloat(miles_per_gallon)), ToFloat(price))

calculate_fuel_cost(distance, price) ==
    RatMul(RatDiv(distance, ToFloat(miles_per_gallon)), ToFloat(price))

NoOpt ==
    [op |-> "none", route_coords |-> <<>>, total_distance |-> 0, outcome |-> "none",
     stops |-> <<>>, cost |-> Zero, num_stops |-> 0, lookups |-> <<>>, trace |-> <<>>]

(* The running state of one call: the stops and cost so far, the table and *)
(* cache as the lookups leave them, and, as history, every lookup's result *)
(* and the stop list after every iteration of the sampling loop.           *)
OptState(outcome, stops, cost, st, ca, num_stops, lookups, trace) ==
    [outcome |-> outcome, stops |-> stops, cost |-> cost, stations |-> st,
     cache |-> ca, num_stops |-> num_stops, lookups |-> lookups, trace |-> trace]

(* Mutant: the duplicate check is dropped. *)
AddStop_NoDedupe(acc, point, f, segment_length) ==
    LET stations_ == f.result
        add == stations_ # <<>>
        stops2 == IF add THEN Append(acc.stops, stations_[1]) ELSE acc.stops
    IN  OptState("running", stops2,
                 IF add THEN RatAdd(acc.cost,
                                    calculate_fuel_cost(segment_length, stations_[1].price))
                        ELSE acc.cost,
                 f.stations, f.cache, acc.num_stops,
                 Append(acc.lookups, [point |-> point, result |-> stations_]),
                 Append(acc.trace, stops2))

(* Mutant: a skipped duplicate is still charged. *)
AddStop_ChargeSkipped(acc, point, f, segment_length) ==
    LET stations_ == f.result
        add == /\ stations_ # <<>>
               /\ \/ acc.stops = <<>>
                  \/ stations_[1].id # acc.stops[Len(acc.stops)].id
        stops2 == IF add THEN Append(acc.stops, stations_[1]) ELSE acc.stops
    IN  OptState("running", stops2,
                 IF stations_ # <<>>
                 THEN RatAdd(acc.cost,
                             calculate_fuel_cost(segment_length, stations_[1].price))
                 ELSE acc.cost,
                 f.stations, f.cache, acc.num_stops,
                 Append(acc.lookups, [point |-> point, result |-> stations_]),
                 Append(acc.trace, stops2))

(* Mutant: a stop is added without its cost. *)
AddStop_NoCharge(acc, point, f, segment_length) ==
    LET stations_ == f.result
        add == /\ stations_ # <<>>
               /\ \/ acc.stops = <<>>
                  \/ stations_[1].id # acc.stops[Len(acc.stops)].id
        stops2 == IF add THEN Append(acc.stops, stations_[1]) ELSE acc.stops
    IN  OptState("running", stops2, acc.cost, f.stations, f.cache, acc.num_stops,
                 Append(acc.lookups, [point |-> point, result |-> stations_]),
                 Append(acc.trace, stops2))

(* One iteration's "if stations:" block. *)
AddStop(acc, point, f, segment_length) ==
    LET stations_ == f.result
        best_station == stations_[1]
        add == /\ stations_ # <<>>
               /\ \/ acc.stops = <<>>
                  \/ best_station.id # acc.stops[Len(acc.stops)].id
        stops2 == IF add THEN Append(acc.stops, best_station) ELSE acc.stops
    IN  OptState("running", stops2,
                 IF add THEN RatAdd(acc.cost,
                                    calculate_fuel_cost(segment_length, best_station.price))
                        ELSE acc.cost,
                 f.stations, f.cache, acc.num_stops,
                 Append(acc.lookups, [point |-> point, result |-> stations_]),
                 Append(acc.trace, stops2))

(* Mutant: the index of the sample after this one. *)
SamplePosition_Next(i, n, num_stops) ==
    RatFloor(RatDiv(ToFloat((i + 1) * n), ToFloat(num_stops)))

(* position = int(i * len(route_coords) / num_stops), n the route's length *)
SamplePosition(i, n, num_stops) ==
    RatFloor(RatDiv(ToFloat(i * n), ToFloat(num_stops)))

(* for i in range(num_stops) *)
RECURSIVE SampleLoop(_, _, _, _, _)
SampleLoop(i, segment_length, route_coords, geo, acc) ==
    IF i = acc.num_stops
    THEN {[acc EXCEPT !.outcome = "ok"]}
    ELSE LET position == SamplePosition(i, Len(route_coords), acc.num_stops)
         IN  IF position >= Len(route_coords)
             THEN {[acc EXCEPT !.outcome = "IndexError"]}
             ELSE LET lat == route_coords[position + 1][1]
                      lon == route_coords[position + 1][2]
                      point == <<lon, lat>>
                  IN  UNION {SampleLoop(i + 1, segment_length, route_coords, geo,
                                        AddStop(acc, point, f, segment_length)) :
                             f \in find_nearby_stations(acc.stations, acc.cache, geo,
                                                        point, DefaultRadius)}

(* Mutant: the last station of the lookup is returned. *)
SingleTank_Last(st, ca, geo, route_coords, total_distance) ==
    IF Len(route_coords) = 0
    THEN {OptState("IndexError", <<>>, Zero, st, ca, 0, <<>>, <<>>)}
    ELSE LET start_point == <<route_coords[1][2], route_coords[1][1]>>
         IN  {IF f.result = <<>>
              THEN OptState("ok", <<>>, Zero, f.stations, f.cache, 0,
                            <<[point |-> start_point, result |-> f.result]>>, <<>>)
              ELSE OptState("ok", <<f.result[Len(f.result)]>>,
                            calculate_fuel_cost(ToFloat(total_distance),
                                                f.result[Len(f.result)].price),
                            f.stations, f.cache, 0,
                            <<[point |-> start_point, result |-> f.result]>>, <<>>) :
              f \in find_nearby_stations(st, ca, geo, start_point, DefaultRadius)}

(* if total_distance <= self.max_range: ... *)
SingleTank(st, ca, geo, route_coords, total_distance) ==
    IF Len(route_coords) = 0
    THEN {OptState("IndexError", <<>>, Zero, st, ca, 0, <<>>, <<>>)}
    ELSE LET start_point == <<route_coords[1][2], route_coords[1][1]>>
         IN  {IF f.result = <<>>
              THEN OptState("ok", <<>>, Zero, f.stations, f.cache, 0,
                            <<[point |-> start_point, result |-> f.result]>>, <<>>)
              ELSE OptState("ok", <<f.result[1]>>,
                            calculate_fuel_cost(ToFloat(total_distance), f.result[1].price),
                            f.stations, f.cache, 0,
                            <<[point |-> start_point, result |-> f.result]>>, <<>>) :
              f \in find_nearby_stations(st, ca, geo, start_point, DefaultRadius)}

(* Mutant: num_stops without the "+ 1". *)
MultiStop_NoPlusOne(st, ca, geo, route_coords, total_distance) ==
    LET num_stops == RatFloor(RatDiv(ToFloat(total_distance), ToFloat(max_range)))
        segment_length == RatDiv(ToFloat(total_distance), ToFloat(num_stops))
    IN  SampleLoop(0, segment_length, route_coords, geo,
                   OptState("running", <<>>, Zero, st, ca, num_stops, <<>>, <<>>))

MultiStop(st, ca, geo, route_coords, total_distance) ==
    LET num_stops == RatFloor(RatDiv(ToFloat(total_distance), ToFloat(max_range))) + 1
        segment_length == RatDiv(ToFloat(total_distance), ToFloat(num_stops))
    IN  SampleLoop(0, segment_length, route_coords, geo,
                   OptState("running", <<>>, Zero, st, ca, num_stops, <<>>, <<>>))

(* The set of possible outcomes of one call. *)
optimize_fuel_stops(st, ca, geo, route_coords, total_distance) ==
    IF total_distance <= max_range
    THEN SingleTank(st, ca, geo, route_coords, total_distance)
    ELSE MultiStop(st, ca, geo, route_coords, total_distance)

----------------------------------------------------------------------------
(* RouteOptimizationView *)

(* What Nominatim's geocode(address) does: it returns a location or None,  *)
(* or raises GeocoderTimedOut or another GeocoderServiceError.             *)
Located(p) == [kind |-> "location", point |-> p]
NotLocated == [kind |-> "none", point |-> SENTINEL]
GeocoderTimedOut == [kind |-> "timed_out", point |-> SENTINEL]
GeocoderServiceError == [kind |-> "service_error", point |-> SENTINEL]

(* geocode_address(address): [outcome, coords, error]. *)
geocode_address(answer) ==
    IF answer.kind = "location"
    THEN [outcome |-> "ok", coords |-> <<answer.point[1], answer.point[2]>>,
          error |-> "none"]
    ELSE IF answer.kind = "none"
    THEN [outcome |-> "ValueError", coords |-> SENTINEL,
          error |-> "Could not find coordinates for address"]
    ELSE [outcome |-> "ValueError", coords |-> SENTINEL,
          error |-> "Geocoding service error"]

(* str() of a [lon, lat] list, as the cache key's f-string formats it. *)
Digits == <<"0", "1", "2", "3", "4", "5", "6", "7", "8", "9">>
CoordsStr(coords) == <<"[", Digits[coords[1] + 1], ",", " ", Digits[coords[2] + 1], "]">>

(* round(x, 2), to the nearest hundredth, halves to the even one. *)
Round2(x) ==
    LET n == 100 * x[1]
        q == n \div x[2]
        rem == n % x[2]
        up == 2 * rem > x[2] \/ (2 * rem = x[2] /\ q % 2 = 1)
    IN  Rat(IF up THEN q + 1 ELSE q, 100)

(* Mutant: an empty address passes the check. *)
Truthy_EmptyOk(value) == value # <<>>

(* "not start_address": the value is missing (None) or the empty string. *)
Truthy(value) == value # <<>> /\ value # <<"">>

FuelStopJson(stop) ==
    [price |-> stop.price, location |-> <<stop.location[1], stop.location[2]>>,
     address |-> stop.address]

NoResp ==
    [op |-> "none", start_address |-> <<>>, end_address |-> <<>>, status |-> 0,
     error |-> "none", route |-> <<>>, total_distance |-> Zero, fuel_stops |-> <<>>,
     total_fuel_cost |-> Zero, failed |-> "none", geocoder_calls |-> 0,
     directions_calls |-> 0, route_cache_reads |-> 0, station_queries |-> 0]

(* A response with an error body; calls counts the geocoder calls, the     *)
(* directions requests, get_route's cache reads and the station lookups.   *)
ErrorResponse(status, error, failed, calls) ==
    [NoResp EXCEPT !.status = status, !.error = error, !.failed = failed,
                   !.geocoder_calls = calls[1], !.directions_calls = calls[2],
                   !.route_cache_reads = calls[3], !.station_queries = calls[4]]

(* What failed at a provider, as history: "geocoder" when Nominatim raised, *)
(* "directions" when the directions request failed or reported a status    *)
(* other than 0.                                                           *)
GeocoderFailed(answer) == answer.kind \in {"timed_out", "service_error"}
DirectionsFailed(r, data) ==
    r.called /\ (data.kind = "timeout" \/ (data.kind = "json" /\ data.statuscode # 0))

(* post(request): the set of possible [response, stations, cache], given   *)
(* the answers of Nominatim (to the two geocode calls), of the directions  *)
(* provider and of the station geocoder.                                   *)
post(st, ca, start_address, end_address, start_answer, end_answer, data, geo) ==
    IF ~Truthy(start_address) \/ ~Truthy(end_address)
    THEN {[response |-> ErrorResponse(400, "Both start_address and end_address are required",
                                      "none", <<0, 0, 0, 0>>),
           stations |-> st, cache |-> ca]}
    ELSE
    LET start == geocode_address(start_answer)
        end == geocode_address(end_answer)
        r == get_route(ca, CoordsStr(start.coords), CoordsStr(end.coords), data)
        called == IF r.called THEN 1 ELSE 0
    IN  IF start.outcome = "ValueError"
        THEN {[response |-> ErrorResponse(400, start.error,
                   IF GeocoderFailed(start_answer) THEN "geocoder" ELSE "none",
                   <<1, 0, 0, 0>>),
               stations |-> st, cache |-> ca]}
        ELSE IF end.outcome = "ValueError"
        THEN {[response |-> ErrorResponse(400, end.error,
                   IF GeocoderFailed(end_answer) THEN "geocoder" ELSE "none",
                   <<2, 0, 0, 0>>),
               stations |-> st, cache |-> ca]}
        ELSE IF r.outcome # "ok"
        THEN {[response |-> ErrorResponse(500, "An unexpected error occurred.",
                   IF DirectionsFailed(r, data) THEN "directions" ELSE "none",
                   <<2, called, 1, 0>>),
               stations |-> st, cache |-> r.cache]}
        ELSE {IF o.outcome # "ok"
              THEN [response |-> ErrorResponse(500, "An unexpected error occurred.",
                                               "none", <<2, called, 1, Len(o.lookups)>>),
                    stations |-> o.stations, cache |-> o.cache]
              ELSE [response |->
                       [NoResp EXCEPT !.status = 200,
                                      !.route = r.result[1],
                                      !.total_distance = Round2(ToFloat(r.result[2])),
                                      !.fuel_stops = [j \in 1..Len(o.stops) |->
                                                         FuelStopJson(o.stops[j])],
                                      !.total_fuel_cost = Round2(o.cost),
                                      !.geocoder_calls = 2,
                                      !.directions_calls = called,
                                      !.route_cache_reads = 1,
                                      !.station_queries = Len(o.lookups)],
                    stations |-> o.stations, cache |-> o.cache] :
              o \in optimize_fuel_stops(st, r.cache, geo, r.result[1], r.result[2])}

----------------------------------------------------------------------------
(* The import_stations command *)

(* What geopy's geocode(address) does on one attempt: the view's outcomes, *)
(* GeocoderServiceError standing for every exception the retry loop does   *)
(* not catch, and GeocoderUnavailable.                                     *)
GeocoderUnavailable == [kind |-> "unavailable", point |-> SENTINEL]
Retryable(answer) == answer.kind \in {"timed_out", "unavailable"}

(* for attempt in range(max_retries): answers[attempt + 1] is what the     *)
(* geocoder does on that attempt.  The outcome is [outcome, result,        *)
(* attempts, sleeps]: outcome "returned" with the location or None as      *)
(* result, or "raised" with the exception; attempts counts the geocode     *)
(* calls and sleeps lists the time.sleep arguments.                        *)
RECURSIVE RetryLoop(_, _, _, _)
RetryLoop(attempt, answers, max_retries, sleeps) ==
    IF attempt >= max_retries
    THEN [outcome |-> "returned", result |-> NotLocated, attempts |-> attempt,
          sleeps |-> sleeps]
    ELSE LET location == answers[attempt + 1]
         IN  IF Retryable(location)
             THEN IF attempt = max_retries - 1
                  THEN [outcome |-> "raised", result |-> location,
                        attempts |-> attempt + 1, sleeps |-> sleeps]
                  ELSE RetryLoop(attempt + 1, answers, max_retries,
                                 Append(sleeps, 2 ^ attempt))
             ELSE [outcome |-> IF location.kind = "service_error" THEN "raised"
                                                                  ELSE "returned",
                   result |-> location, attempts |-> attempt + 1, sleeps |-> sleeps]

(* Mutant: one attempt more than max_retries. *)
geocode_with_retry_OneMore(answers, max_retries) == RetryLoop(0, answers, max_retries + 1, <<>>)

geocode_with_retry(answers, max_retries) == RetryLoop(0, answers, max_retries, <<>>)

(* A line of the CSV file: wellformed tells whether int() and Decimal()    *)
(* accept its id, rack id and price.  address stands for the line's text   *)
(* fields (name, address, city, state) and price for its numbers (rack id, *)
(* price), which station_data carries to the row in the same way.          *)
CsvRow(wellformed, k, p, a) == [wellformed |-> wellformed, opis_id |-> k, price |-> p, address |-> a]

NoImp ==
    [op |-> "none", max_retries |-> 0, answers |-> <<>>, outcome |-> "none",
     result |-> NotLocated, attempts |-> 0, sleeps |-> <<>>, api_key |-> FALSE,
     file |-> "none", rows |-> <<>>, log |-> <<>>, total_processed |-> 0,
     total_success |-> 0, total_failed |-> 0]

(* The running state of handle's loop over the lines: the table, the three *)
(* counters and, as history, what was done with every line and how many    *)
(* geocode calls it took.                                                  *)
ImportState(st, log, total_processed, total_success, total_failed) ==
    [stations |-> st, log |-> log, total_processed |-> total_processed,
     total_success |-> total_success, total_failed |-> total_failed]

Logged(acc, did, attempts) == Append(acc.log, [did |-> did, attempts |-> attempts])

(* One line: the body of "for row_number, row in enumerate(reader)". *)
ImportRow(row, answers, acc) ==
    LET st == acc.stations
        processed == acc.total_processed + 1
        g == geocode_with_retry(answers, DefaultMaxRetries)
    IN  IF ~row.wellformed
        THEN ImportState(st, Logged(acc, "error", 0), processed,
                         acc.total_success, acc.total_failed + 1)
        ELSE IF st[row.opis_id] # NoStation
        THEN ImportState(st, Logged(acc, "skipped", 0), processed,
                         acc.total_success, acc.total_failed)
        ELSE IF g.outcome = "returned" /\ g.result.kind = "location"
        THEN ImportState([st EXCEPT ![row.opis_id] =
                             Row(row.opis_id, row.price, g.result.point, row.address)],
                         Logged(acc, "created", g.attempts), processed,
                         acc.total_success + 1, acc.total_failed)
        ELSE ImportState(st, Logged(acc, IF g.outcome = "returned" THEN "not_geocoded"
                                                                   ELSE "error", g.attempts),
                         processed, acc.total_success, acc.total_failed + 1)

RECURSIVE ImportLoop(_, _, _, _)
ImportLoop(i, rows, answers, acc) ==
    IF i > Len(rows) THEN acc
    ELSE ImportLoop(i + 1, rows, answers, ImportRow(rows[i], answers[i], acc))

(* handle(csv_file): nothing is read without the API key, when the file is *)
(* not found or when it lacks a required column.                           *)
handle(st, api_key, file, rows, answers) ==
    IF ~api_key \/ file # "ok"
    THEN ImportState(st, <<>>, 0, 0, 0)
    ELSE ImportLoop(1, rows, answers, ImportState(st, <<>>, 0, 0, 0))

----------------------------------------------------------------------------
(* Inputs *)

RECURSIVE SeqsUpTo(_, _)
SeqsUpTo(S, n) ==
    IF n = 0 THEN {<<>>}
    ELSE LET shorter == SeqsUpTo(S, n - 1)
         IN  shorter \cup {Append(s, x) : s \in {t \in shorter : Len(t) = n - 1}, x \in S}

Routes == SeqsUpTo(Points, MaxRouteLen)      \* route_coords: [lat, lon] pairs
Distances == 0..MaxDist

(* A row of the table.  Only a row at the sentinel is ever geocoded, so    *)
(* the address of the other rows is fixed.                                 *)
RowChoices(As) ==
    {c \in Prices \X Points \X As : c[2] # SENTINEL => c[3] = "addr1"}

(* A rank that orders the row choices, by location first. *)
RowRank(c) == 100 * c[2][1] + 50 * c[2][2] + 10 * c[1] + (IF c[3] = "addr1" THEN 0 ELSE 1)

(* The sequences of n different row choices of rank >= low in increasing   *)
(* rank: one table for every table of pairwise different rows, up to a     *)
(* renaming of the ids.                                                    *)
RECURSIVE SortedChoices(_, _, _)
SortedChoices(n, low, As) ==
    IF n = 0 THEN {<<>>}
    ELSE UNION {{<<c>> \o t : t \in SortedChoices(n - 1, RowRank(c) + 1, As)} :
                c \in {d \in RowChoices(As) : RowRank(d) >= low}}

(* The tables of n rows, ids 1..n. *)
Tables(n, As) ==
    {[k \in StationIds |-> IF k <= n THEN Row(k, f[k][1], f[k][2], f[k][3])
                                      ELSE NoStation] :
     f \in SortedChoices(n, 0, As)}

SentinelAddresses(st) == {st[k].address : k \in {j \in Present(st) : st[j].location = SENTINEL}}

(* The geocoder's answers that a call on table st and cache ca can see:    *)
(* the answer for an address that is never asked is fixed.                 *)
GeoWorldsFor(st, ca) ==
    {g \in GeoWorlds :
        \A a \in Addresses :
            (a \notin SentinelAddresses(st) \/ GeoKey(a) \in DOMAIN ca) => g[a] = GeoNoResult}

(* Caches holding geocoded locations for some of the addresses in As. *)
GeoCaches(As) ==
    UNION {[{GeoKey(a) : a \in D} -> RealPoints] : D \in SUBSET As}

InitConfig ==
    \E c \in Configs :
        /\ miles_per_gallon = c[1]
        /\ max_range = c[2]

(* One configuration, for the runs of operations that read neither value. *)
InitAnyConfig ==
    LET c == CHOOSE d \in Configs : TRUE
    IN  /\ miles_per_gallon = c[1]
        /\ max_range = c[2]

(* get_route's inputs: start and end strings, and the provider's answers. *)
Strs == {<<"a">>, <<"a", "_">>, <<"_", "a">>}
ProviderAnswers ==
    {Timeout, Malformed, Json(1, <<>>, 0)}
        \cup {Json(0, shape, d) : shape \in {<<0, 1>>, <<0, 1, 1>>, <<1, 0, 1, 1>>},
                                  d \in {2, 5}}

NoRouted ==
    [op |-> "none", start |-> <<>>, end |-> <<>>, outcome |-> "none", result |-> NoRoute,
     called |-> FALSE, data |-> NoResponse, prior |-> <<>>, calls_before |-> 0]

InitIdle ==
    /\ found = [op |-> "none", point |-> SENTINEL, max_distance |-> 0,
                result |-> <<>>, query |-> <<>>]
    /\ opt = NoOpt
    /\ routed = NoRouted
    /\ served = [pair \in Strs \X Strs |-> <<>>]
    /\ provider_calls = 0
    /\ resp = NoResp
    /\ imp = NoImp

----------------------------------------------------------------------------
(* The optimizer's runs: one call of optimize_fuel_stops on a table of up  *)
(* to two different rows.                                                  *)

InitOpt ==
    /\ stations \in UNION {Tables(n, {"addr1"}) : n \in OptTableSizes}
    /\ cache \in GeoCaches(SentinelAddresses(stations))
    /\ InitConfig
    /\ InitIdle

OptimizeCall ==
    /\ opt.op = "none"
    /\ \E geo \in GeoWorldsFor(stations, cache) :
         \E route_coords \in Routes, total_distance \in Distances :
           \E o \in optimize_fuel_stops(stations, cache, geo, route_coords, total_distance) :
              /\ opt' = [op |-> "optimize_fuel_stops", route_coords |-> route_coords,
                         total_distance |-> total_distance, outcome |-> o.outcome,
                         stops |-> o.stops, cost |-> o.cost, num_stops |-> o.num_stops,
                         lookups |-> o.lookups, trace |-> o.trace]
              /\ stations' = o.stations
              /\ cache' = o.cache
    /\ UNCHANGED <<miles_per_gallon, max_range, found, routed, served, provider_calls, resp, imp>>

NextOpt == OptimizeCall

SpecOpt == InitOpt /\ [][NextOpt]_vars

----------------------------------------------------------------------------
(* The lookup's runs: one call of find_nearby_stations on a full table.    *)

InitFind ==
    /\ stations \in Tables(NStations, {"addr1"})
    /\ cache \in GeoCaches(SentinelAddresses(stations))
    /\ InitAnyConfig
    /\ InitIdle

FindCall ==
    /\ found.op = "none"
    /\ \E geo \in GeoWorldsFor(stations, cache) :
         \E point \in Points, max_distance \in Radii :
           \E f \in find_nearby_stations(stations, cache, geo, point, max_distance) :
              /\ found' = [op |-> "find_nearby_stations", point |-> point,
                           max_distance |-> max_distance, result |-> f.result,
                           query |-> f.query]
              /\ stations' = f.stations
              /\ cache' = f.cache
    /\ UNCHANGED <<miles_per_gallon, max_range, opt, routed, served, provider_calls, resp, imp>>

NextFind == FindCall

SpecFind == InitFind /\ [][NextFind]_vars

----------------------------------------------------------------------------
(* The route cache's runs: get_route calls, and cache entries timing out. *)

InitRoute ==
    /\ stations \in Tables(0, {"addr1"})
    /\ cache = EmptyCache
    /\ InitAnyConfig
    /\ InitIdle

GetRouteCall ==
    \E start \in Strs, end \in Strs, data \in ProviderAnswers :
        LET r == get_route(cache, start, end, data)
        IN  /\ r.called => provider_calls < MaxProviderCalls
            /\ routed' = [op |-> "get_route", start |-> start, end |-> end,
                          outcome |-> r.outcome, result |-> r.result, called |-> r.called,
                          data |-> IF r.called THEN data ELSE NoResponse,
                          prior |-> served[<<start, end>>], calls_before |-> provider_calls]
            /\ cache' = r.cache
            /\ provider_calls' = IF r.called THEN provider_calls + 1 ELSE provider_calls
            /\ served' = IF r.outcome = "ok"
                         THEN [served EXCEPT ![<<start, end>>] = <<r.result>>]
                         ELSE served
            /\ UNCHANGED <<stations, miles_per_gallon, max_range, found, opt, resp, imp>>

(* An entry of the cache reaches its timeout (cache_timeout). *)
Expire ==
    \E key \in DOMAIN cache :
        /\ cache' = CacheDelete(cache, key)
        /\ served' = [pair \in DOMAIN served |->
                         IF RouteKey(pair[1], pair[2]) = key THEN <<>> ELSE served[pair]]
        /\ UNCHANGED <<stations, miles_per_gallon, max_range, found, opt, routed,
                       provider_calls, resp, imp>>

NextRoute == GetRouteCall \/ Expire

SpecRoute == InitRoute /\ [][NextRoute]_vars

----------------------------------------------------------------------------
(* The view's runs: one request on a table of at most one row. *)

RequestValues == {<<>>, <<"">>, <<"A">>}     \* a missing, an empty and a given address
NominatimAnswers ==
    {Located(<<0, 1>>), Located(<<1, 1>>), NotLocated, GeocoderTimedOut,
     GeocoderServiceError}

(* The cache is empty or holds the route of one earlier request. *)
ViewCaches(st) ==
    {CacheSet(c, RouteKey(CoordsStr(<<0, 1>>), CoordsStr(<<1, 1>>)), <<<<<<1, 0>>>>, 2>>) :
        c \in GeoCaches(SentinelAddresses(st))}
    \cup GeoCaches(SentinelAddresses(st))

InitView ==
    /\ stations \in UNION {Tables(n, {"addr1"}) : n \in 0..1}
    /\ cache \in ViewCaches(stations)
    /\ InitConfig
    /\ InitIdle

PostRequest ==
    /\ resp.op = "none"
    /\ \E start_address \in RequestValues, end_address \in RequestValues :
         \E start_answer \in NominatimAnswers, end_answer \in NominatimAnswers :
           \E data \in ProviderAnswers, geo \in GeoWorldsFor(stations, cache) :
             \E out \in post(stations, cache, start_address, end_address,
                              start_answer, end_answer, data, geo) :
                /\ resp' = [out.response EXCEPT !.op = "post",
                                                !.start_address = start_address,
                                                !.end_address = end_address]
                /\ stations' = out.stations
                /\ cache' = out.cache
    /\ UNCHANGED <<miles_per_gallon, max_range, found, opt, routed, served, provider_calls, imp>>

NextView == PostRequest

SpecView == InitView /\ [][NextView]_vars

----------------------------------------------------------------------------
(* The import's runs: one run of import_stations on a table of at most one *)
(* row.                                                                    *)

ImportIds == 1..2
CsvRows ==
    {CsvRow(TRUE, k, p, a) : k \in ImportIds, p \in Prices, a \in Addresses}
        \cup {CsvRow(FALSE, 0, 0, "none")}
CsvFiles == SeqsUpTo(CsvRows, MaxCsvRows)
FileKinds == {"ok", "not_found", "missing_fields"}

(* What the geocoder does on the attempts made for one line. *)
ImportAnswers ==
    {<<Located(<<1, 1>>), NotLocated, NotLocated>>,
     <<GeocoderTimedOut, Located(<<0, 1>>), NotLocated>>,
     <<NotLocated, NotLocated, NotLocated>>,
     <<GeocoderTimedOut, GeocoderUnavailable, GeocoderTimedOut>>,
     <<GeocoderUnavailable, GeocoderServiceError, NotLocated>>}

(* The runs: every file with the key set and the file readable, and the    *)
(* short files otherwise.                                                  *)
ImportRuns ==
    {[api_key |-> TRUE, file |-> "ok", rows |-> rows] : rows \in CsvFiles}
        \cup {[api_key |-> k, file |-> f, rows |-> rows] :
                 k \in BOOLEAN, f \in FileKinds, rows \in SeqsUpTo(CsvRows, 1)}

InitImport ==
    /\ stations \in UNION {Tables(n, {"addr1"}) : n \in 0..1}
    /\ cache = EmptyCache
    /\ InitAnyConfig
    /\ InitIdle

ImportCall ==
    /\ imp.op = "none"
    /\ \E run \in ImportRuns, answers \in [1..MaxCsvRows -> ImportAnswers] :
         LET h == handle(stations, run.api_key, run.file, run.rows, answers)
         IN  /\ imp' = [NoImp EXCEPT !.op = "import_stations", !.api_key = run.api_key,
                                     !.file = run.file, !.rows = run.rows,
                                     !.answers = answers, !.log = h.log,
                                     !.total_processed = h.total_processed,
                                     !.total_success = h.total_success,
                                     !.total_failed = h.total_failed]
             /\ stations' = h.stations
    /\ UNCHANGED <<cache, miles_per_gallon, max_range, found, opt, routed, served,
                   provider_calls, resp>>

NextImport == ImportCall

SpecImport == InitImport /\ [][NextImport]_vars

----------------------------------------------------------------------------
(* The retry helper's runs: one call of geocode_with_retry. *)

RetryAnswers ==
    {Located(<<1, 1>>), NotLocated, GeocoderTimedOut, GeocoderUnavailable,
     GeocoderServiceError}

InitRetry ==
    /\ stations \in Tables(0, {"addr1"})
    /\ cache = EmptyCache
    /\ InitAnyConfig
    /\ InitIdle

RetryCall ==
    /\ imp.op = "none"
    /\ \E max_retries \in 0..MaxRetriesArg, answers \in [1..(MaxRetriesArg + 1) -> RetryAnswers] :
         LET g == geocode_with_retry(answers, max_retries)
         IN  imp' = [NoImp EXCEPT !.op = "geocode_with_retry", !.max_retries = max_retries,
                                  !.answers = answers, !.outcome = g.outcome,
                                  !.result = g.result, !.attempts = g.attempts,
                                  !.sleeps = g.sleeps]
    /\ UNCHANGED <<stations, cache, miles_per_gallon, max_range, found, opt, routed, served,
                   provider_calls, resp>>

NextRetry == RetryCall

SpecRetry == InitRetry /\ [][NextRetry]_vars

----------------------------------------------------------------------------
(* Properties of RouteOptimizationView.post *)

Posted == resp.op = "post"

(* C10: a request during which the geocoder or the directions provider     *)
(* failed is answered with a client error (400) whose message is not the   *)
(* generic "An unexpected error occurred.".                                *)
C10_ProviderErrorSurfaced ==
    (Posted /\ resp.failed \in {"geocoder", "directions"}) =>
        /\ resp.status = 400
        /\ resp.error # "An unexpected error occurred."

(* The geocoder's half of C10 alone. *)
GeocoderErrorSurfaced ==
    (Posted /\ resp.failed = "geocoder") =>
        (resp.status = 400 /\ resp.error = "Geocoding service error")

NoAddress == {<<>>, <<"">>}      \* a missing and an empty address

(* C11: a request whose start_address or end_address is missing or empty   *)
(* is answered with status 400, and in that request no geocoder call, no   *)
(* directions request, no read of the route cache and no station lookup    *)
(* is made, and the cache and the Station table stay as they were.         *)
C11_InvalidRejectedBeforeCalls ==
    [][(resp.op = "none" /\ resp'.op = "post"
          /\ (resp'.start_address \in NoAddress \/ resp'.end_address \in NoAddress)) =>
            /\ resp'.status = 400
            /\ resp'.geocoder_calls = 0
            /\ resp'.directions_calls = 0
            /\ resp'.route_cache_reads = 0
            /\ resp'.station_queries = 0
            /\ cache' = cache
            /\ stations' = stations]_vars

C11_Witness ==
    /\ Posted
    /\ resp.start_address = <<"A">>
    /\ resp.end_address = <<"">>
    /\ resp.status = 400
    /\ resp.error = "Both start_address and end_address are required"
    /\ DOMAIN cache # {}

----------------------------------------------------------------------------
(* Properties of get_route *)

Routed == routed.op = "get_route"

(* C8: a get_route call made after a successful call with the same start   *)
(* and end, with the entry not timed out in between and whatever other     *)
(* calls were made in between, returns the earlier call's result and sends *)
(* no request to the provider.                                             *)
C8_CacheHitSkipsProvider ==
    (Routed /\ routed.prior # <<>>) =>
        /\ routed.outcome = "ok"
        /\ routed.result = routed.prior[1]
        /\ ~routed.called
        /\ provider_calls = routed.calls_before

C8_Witness ==
    /\ Routed
    /\ routed.prior # <<>>
    /\ provider_calls = 2
    /\ Cardinality(DOMAIN cache) = 2
    /\ routed.result[1] # <<>>

(* C9: a get_route call that finds no cached entry and gets a status code  *)
(* other than 0 from the provider raises the provider error (ValueError)   *)
(* and stores nothing under its key.                                       *)
C9_ProviderFailureRaises ==
    (Routed /\ routed.called /\ routed.data.kind = "json" /\ routed.data.statuscode # 0) =>
        /\ routed.outcome = "ValueError"
        /\ routed.result = NoRoute

C9_Witness ==
    /\ Routed
    /\ routed.called
    /\ routed.data.kind = "json"
    /\ routed.data.statuscode # 0
    /\ RouteKey(routed.start, routed.end) \notin DOMAIN cache

----------------------------------------------------------------------------
(* Properties of find_nearby_stations *)

Found == found.op = "find_nearby_stations"

FoundAtMostFive == Len(found.result) <= 5
FoundByPrice ==
    \A j \in 1..(Len(found.result) - 1) : found.result[j].price <= found.result[j + 1].price
FoundWithinRadius ==
    \A j \in 1..Len(found.result) :
        Distance(found.result[j].location, found.point) <= found.max_distance
FoundTiesByDistance ==
    \A j \in 1..(Len(found.result) - 1) :
        found.result[j].price = found.result[j + 1].price =>
            Distance(found.result[j].location, found.point)
                <= Distance(found.result[j + 1].location, found.point)

(* C4: a lookup returns at most 5 stations, each within the radius of the  *)
(* point, in non-decreasing price order with ties in ascending distance,   *)
(* and returns the empty list when no row is in range.                     *)
C4_NearbyCheapestFive ==
    Found =>
        /\ FoundAtMostFive
        /\ FoundByPrice
        /\ FoundWithinRadius
        /\ FoundTiesByDistance
        /\ found.query = <<>> => found.result = <<>>

(* C16: every station a lookup returns has a location other than the      *)
(* (0,0) sentinel, geocode_station reporting a station as geocoded only    *)
(* when its location is real.                                              *)
C16_ReturnedStationsGeocoded ==
    Found => \A j \in 1..Len(found.result) : found.result[j].location # SENTINEL

(* The part of C16 about a provider exception: geocode_station on a row at *)
(* the sentinel whose address is not cached gives False and leaves the row *)
(* and the cache as they were.                                             *)
GeocodeErrorIsFalse ==
    \A k \in Present(stations) :
        (stations[k].location = SENTINEL /\ GeoKey(stations[k].address) \notin DOMAIN cache) =>
            LET g == geocode_station(stations[k], stations, cache, [a \in Addresses |-> GeoError])
            IN  ~g.ok /\ g.stations = stations /\ g.cache = cache

----------------------------------------------------------------------------
(* Properties of optimize_fuel_stops *)

Optimized == opt.op = "optimize_fuel_stops"
SingleTankCall == Optimized /\ opt.total_distance <= max_range
MultiStopCall == Optimized /\ opt.total_distance > max_range
Last(s) == s[Len(s)]
StopsBefore(k) == IF k = 1 THEN <<>> ELSE opt.trace[k - 1]

(* An iteration of the sampling loop that adds no stop: its lookup found   *)
(* nothing, or its cheapest station is the previous stop.                  *)
EmptySample(k) == opt.lookups[k].result = <<>>
DuplicateSample(k) ==
    /\ opt.lookups[k].result # <<>>
    /\ StopsBefore(k) # <<>>
    /\ opt.lookups[k].result[1].id = Last(StopsBefore(k)).id

RECURSIVE SumPrices(_)
SumPrices(stops) == IF stops = <<>> THEN 0 ELSE Head(stops).price + SumPrices(Tail(stops))

(* C1: on a non-empty route with total_distance <= max_range the call      *)
(* returns, makes one lookup, at the route's first point, and returns at   *)
(* most one stop: the lookup's first station, which no station of the      *)
(* lookup undercuts, or no stop and cost 0 when the lookup is empty.       *)
C1_SingleTankCheapest ==
    (SingleTankCall /\ opt.route_coords # <<>>) =>
        /\ opt.outcome = "ok"
        /\ Len(opt.stops) <= 1
        /\ Len(opt.lookups) = 1
        /\ opt.lookups[1].point = <<opt.route_coords[1][2], opt.route_coords[1][1]>>
        /\ opt.lookups[1].result # <<>> =>
              /\ opt.stops = <<opt.lookups[1].result[1]>>
              /\ \A j \in 1..Len(opt.lookups[1].result) :
                    opt.stops[1].price <= opt.lookups[1].result[j].price
        /\ opt.lookups[1].result = <<>> => (opt.stops = <<>> /\ opt.cost = Zero)

C1_Witness ==
    /\ SingleTankCall
    /\ Len(opt.stops) = 1
    /\ Len(opt.lookups[1].result) = 2
    /\ opt.lookups[1].result[2].price > opt.stops[1].price

(* C2: on a non-empty route with total_distance > max_range the call       *)
(* returns, num_stops is floor(total_distance / max_range) + 1, one lookup *)
(* is made per planned stop, and at most num_stops stops are returned.     *)
C2_StopCountBound ==
    (MultiStopCall /\ opt.route_coords # <<>>) =>
        /\ opt.outcome = "ok"
        /\ (opt.num_stops - 1) * max_range <= opt.total_distance
        /\ opt.total_distance < opt.num_stops * max_range
        /\ Len(opt.lookups) = opt.num_stops
        /\ Len(opt.stops) <= opt.num_stops

C2_Witness ==
    /\ MultiStopCall
    /\ opt.num_stops >= 3
    /\ Len(opt.stops) = opt.num_stops

(* C3: in the returned stop list and in the stop list after every          *)
(* iteration, neighbours have different station ids; an iteration whose    *)
(* cheapest station is the previous stop leaves the stop list as it was.   *)
C3_NoConsecutiveDuplicates ==
    Optimized =>
        /\ \A j \in 1..(Len(opt.stops) - 1) : opt.stops[j].id # opt.stops[j + 1].id
        /\ \A k \in 1..Len(opt.trace) :
              /\ \A j \in 1..(Len(opt.trace[k]) - 1) :
                    opt.trace[k][j].id # opt.trace[k][j + 1].id
              /\ DuplicateSample(k) => opt.trace[k] = StopsBefore(k)

C3_Witness ==
    /\ MultiStopCall
    /\ opt.outcome = "ok"
    /\ \E k \in 1..Len(opt.trace) : DuplicateSample(k)
    /\ Len(opt.stops) >= 2

(* C5: a single-tank call that returns one stop returns the cost           *)
(* total_distance / miles_per_gallon * price of that stop, and             *)
(* calculate_fuel_cost(distance, price) is distance / miles_per_gallon *   *)
(* price for every distance and price.                                     *)
C5_SingleTankCost ==
    /\ (SingleTankCall /\ Len(opt.stops) = 1) =>
          opt.cost[1] * miles_per_gallon = opt.total_distance * opt.stops[1].price * opt.cost[2]
    /\ \A distance \in Distances, price \in Prices :
          LET c == calculate_fuel_cost(ToFloat(distance), price)
          IN  c[1] * miles_per_gallon = distance * price * c[2]

C5_Witness ==
    /\ SingleTankCall
    /\ Len(opt.stops) = 1
    /\ miles_per_gallon = 3
    /\ opt.cost[2] = 3

(* C6: a multi-stop call that returns, returns the cost                    *)
(* sum over the returned stops of (total_distance / num_stops) /           *)
(* miles_per_gallon * price; an iteration whose lookup is empty or whose   *)
(* cheapest station is the previous stop adds no stop; the call on a       *)
(* non-empty route raises nothing; with every lookup empty the result is   *)
(* no stop and cost 0.                                                     *)
C6_MultiStopCost ==
    MultiStopCall =>
        /\ opt.route_coords # <<>> => opt.outcome = "ok"
        /\ opt.outcome = "ok" =>
              /\ opt.cost[1] * opt.num_stops * miles_per_gallon
                    = opt.total_distance * SumPrices(opt.stops) * opt.cost[2]
              /\ opt.stops = (IF opt.trace = <<>> THEN <<>> ELSE Last(opt.trace))
              /\ \A k \in 1..Len(opt.trace) :
                    IF EmptySample(k) \/ DuplicateSample(k)
                    THEN opt.trace[k] = StopsBefore(k)
                    ELSE opt.trace[k] = Append(StopsBefore(k), opt.lookups[k].result[1])
              /\ (\A k \in 1..Len(opt.lookups) : EmptySample(k)) =>
                    (opt.stops = <<>> /\ opt.cost = Zero)

C6_Witness ==
    /\ MultiStopCall
    /\ opt.outcome = "ok"
    /\ \E k \in 1..Len(opt.trace) : EmptySample(k)
    /\ \E k \in 1..Len(opt.trace) : DuplicateSample(k)
    /\ Len(opt.stops) = 2
    /\ opt.stops[1].price # opt.stops[2].price

(* C7: a call with an empty route is rejected with a validation error. *)
C7_EmptyRouteRejected ==
    (Optimized /\ opt.route_coords = <<>>) => opt.outcome = "ValidationError"

(* C12: a call of optimize_fuel_stops, with the lookups it makes, leaves   *)
(* every row of the Station table as it was.                               *)
C12_StationsReadOnly ==
    [][(opt.op = "none" /\ opt'.op = "optimize_fuel_stops") => stations' = stations]_vars

(* A multi-stop call that returned and whose every lookup found a station. *)
AllSamplesFound ==
    /\ MultiStopCall
    /\ opt.outcome = "ok"
    /\ \A k \in 1..Len(opt.lookups) : ~EmptySample(k)

MaxNumStops == MaxDist + 1     \* no call plans more stops than this

(* C15: for every route length n >= 1 and every num_stops >= 1 the sampled *)
(* index of every i in 0..num_stops-1 is in 0..n-1, the first one is 0 and *)
(* the indices do not decrease; a multi-stop call on a non-empty route     *)
(* raises no IndexError, its k-th lookup is at the route point of the      *)
(* k-th sampled index, and every iteration keeps the stops before it as a  *)
(* prefix of the stop list.  The first part does not depend on the state   *)
(* and is evaluated in the states before the call.                         *)
C15_SampleIndexInRange ==
    /\ ~Optimized =>
          \A n \in 1..(4 * MaxRouteLen), num_stops \in 1..MaxNumStops :
              /\ SamplePosition(0, n, num_stops) = 0
              /\ \A i \in 0..(num_stops - 1) :
                    /\ SamplePosition(i, n, num_stops) \in 0..(n - 1)
                    /\ i > 0 => SamplePosition(i - 1, n, num_stops)
                                    <= SamplePosition(i, n, num_stops)
    /\ (MultiStopCall /\ opt.route_coords # <<>>) =>
          /\ opt.outcome = "ok"
          /\ \A k \in 1..Len(opt.lookups) :
                LET p == opt.route_coords[SamplePosition(k - 1, Len(opt.route_coords),
                                                         opt.num_stops) + 1]
                IN  opt.lookups[k].point = <<p[2], p[1]>>
          /\ \A k \in 1..Len(opt.trace) :
                SubSeq(opt.trace[k], 1, Len(StopsBefore(k))) = StopsBefore(k)

C15_Witness ==
    /\ MultiStopCall
    /\ opt.outcome = "ok"
    /\ opt.num_stops = 3
    /\ Len(opt.route_coords) = 2
    /\ opt.lookups[2].point # opt.lookups[3].point
    /\ Len(opt.stops) = 2

----------------------------------------------------------------------------
(* Properties of import_stations *)

Imported == imp.op = "import_stations" /\ imp.api_key /\ imp.file = "ok"

(* The line is well-formed and the geocoder, asked for it, gives a         *)
(* location within the retries.                                            *)
Geocodable(i) ==
    LET g == geocode_with_retry(imp.answers[i], DefaultMaxRetries)
    IN  /\ imp.rows[i].wellformed
        /\ g.outcome = "returned"
        /\ g.result.kind = "location"

LastOfItsId(i) == \A j \in (i + 1)..Len(imp.rows) : imp.rows[j].opis_id # imp.rows[i].opis_id

(* C13: after an import, for every well-formed, geocodable line (the last  *)
(* one of its identifier in the file) the table holds the row of that      *)
(* identifier with the line's values, whether or not the table held a row  *)
(* of that identifier before.                                              *)
C13_ImportUpserts ==
    Imported =>
        \A i \in 1..Len(imp.rows) :
            (Geocodable(i) /\ LastOfItsId(i)) =>
                /\ stations[imp.rows[i].opis_id].opis_id = imp.rows[i].opis_id
                /\ stations[imp.rows[i].opis_id].price = imp.rows[i].price
                /\ stations[imp.rows[i].opis_id].address = imp.rows[i].address

(* What the import does do: a line it creates a row for is in the table    *)
(* with its values when the run ends.                                      *)
ImportCreates ==
    Imported =>
        \A i \in 1..Len(imp.log) :
            imp.log[i].did = "created" =>
                /\ stations[imp.rows[i].opis_id].price = imp.rows[i].price
                /\ stations[imp.rows[i].opis_id].address = imp.rows[i].address

----------------------------------------------------------------------------
(* Properties of geocode_with_retry *)

Retried == imp.op = "geocode_with_retry"

(* The attempts, among the first max_retries, on which the geocoder        *)
(* neither times out nor reports unavailability.                           *)
Decisive == {j \in 1..imp.max_retries : ~Retryable(imp.answers[j])}
FirstDecisive == CHOOSE j \in Decisive : \A i \in Decisive : j <= i

(* C17: a call makes at most max_retries attempts; its outcome is that of  *)
(* the first attempt that neither times out nor reports unavailability     *)
(* (the location or None returned, another exception raised), with no      *)
(* attempt after it; when every one of the max_retries attempts fails in   *)
(* one of those two ways the last failure is raised; a retry, after a      *)
(* sleep of 2 ** attempt, follows only such a failure on an attempt that   *)
(* is not the last.                                                        *)
C17_RetryBounded ==
    Retried =>
        /\ imp.attempts <= imp.max_retries
        /\ imp.outcome \in {"returned", "raised"}
        /\ Decisive # {} =>
              /\ imp.attempts = FirstDecisive
              /\ imp.result = imp.answers[FirstDecisive]
              /\ imp.outcome = (IF imp.result.kind = "service_error" THEN "raised"
                                                                      ELSE "returned")
        /\ (Decisive = {} /\ imp.max_retries >= 1) =>
              /\ imp.attempts = imp.max_retries
              /\ imp.outcome = "raised"
              /\ imp.result = imp.answers[imp.max_retries]
        /\ \A j \in 1..(imp.attempts - 1) : Retryable(imp.answers[j])
        /\ Len(imp.sleeps) = (IF imp.attempts = 0 THEN 0 ELSE imp.attempts - 1)
        /\ \A j \in 1..Len(imp.sleeps) : imp.sleeps[j] = 2 ^ (j - 1)

C17_Witness ==
    /\ Retried
    /\ imp.max_retries = DefaultMaxRetries
    /\ imp.attempts = DefaultMaxRetries
    /\ imp.outcome = "raised"
    /\ imp.result = GeocoderUnavailable
    /\ imp.sleeps = <<1, 2>>

(* A call that returns after two failed attempts. *)
RetryThenReturn ==
    /\ Retried
    /\ imp.attempts = 3
    /\ imp.max_retries = 4
    /\ imp.outcome = "returned"
    /\ imp.result.kind = "location"

====
